---- MODULE Spec2Model ----
(***************************************************************************)
(* gin-contrib/gzip: the gzip middleware (gzipHandler.Handle), the         *)
(* response-writer decorator (gzipWriter) and the request decoder          *)
(* (DefaultDecompressHandle), as one request passing through the           *)
(* middleware and one downstream handler; and the compressor pool as       *)
(* several requests running Handle at the same time use it.                *)
(*                                                                         *)
(* Text that the code searches (request headers, paths) is a sequence of   *)
(* one-character strings; response header values that the code only        *)
(* compares for equality are strings.  A byte is a number 0..255.          *)
(* The bytes that reach the underlying http.ResponseWriter are tokens:     *)
(*   raw  - one byte forwarded unmodified                                  *)
(*   hdr  - the 10-byte gzip header (magic 1f 8b ...)                      *)
(*   z    - the deflate coding of one payload byte                         *)
(*   sync - a deflate sync-flush block                                     *)
(*   fin  - the final deflate block                                        *)
(*   ftr  - the 8-byte CRC32/ISIZE footer                                  *)
(***************************************************************************)
EXTENDS Integers, Sequences, FiniteSets, TLC

VARIABLES
    cfg,        \* the middleware's config (immutable once built)
    req0,       \* the request as received
    req,        \* c.Request as the pipeline sees it now (headers, body)
    pc,         \* position of the request in Handle / the handler chain
    ret,        \* where control returns when the downstream handler returns
    limit,      \* calls the downstream handler makes in one request, at most
    budget,     \* calls the downstream handler may still make
    aborted,    \* c.IsAborted()
    errs,       \* c.Errors, as the status codes they were recorded with
    handlerRuns,\* times the downstream handler was entered
    seen,       \* what the downstream handler observed of the request
    toClose,    \* DefaultDecompressHandle's toClose slice
    closeLog,   \* readers closed so far, in order
    rw,         \* the gin.ResponseWriter below the decorator
    gw,         \* the gzipWriter decorator installed as c.Writer
    gz,         \* the *gzip.Writer the request borrowed
    gzPool,     \* idle compressors in gzipHandler.gzPool
    hist,       \* history of the downstream handler's calls
    conc        \* requests running Handle concurrently, and the pool they share

vars == <<cfg, req0, req, pc, ret, limit, budget, aborted, errs, handlerRuns, seen,
          toClose, closeLog, rw, gw, gz, gzPool, hist, conc>>

----------------------------------------------------------------------------
(* Bounds of the model *)

\* calls the downstream handler makes in one request
MaxOps == 4
\* calls of the downstream handler in the specifications that vary the
\* configuration and the request instead
MaxOpsDecision == 2
\* gzip layers around a request body
MaxLayers == 3
\* requests running Handle at the same time
MaxRequests == 2
\* the largest minimum length Gzip(level, minLength) is configured with
MaxMinLength == 3

----------------------------------------------------------------------------
(* Text *)

HasPrefix(s, p) == Len(s) >= Len(p) /\ SubSeq(s, 1, Len(p)) = p

Contains(s, sub) ==
    \E i \in 0..(Len(s) - Len(sub)) : SubSeq(s, i + 1, i + Len(sub)) = sub

gzipEncoding == <<"g", "z", "i", "p">>

\* strings.ToLower, on the letters the requests of the model use
ToLowerChar(ch) ==
    CASE ch = "G" -> "g" [] ch = "Z" -> "z" [] ch = "I" -> "i" [] ch = "P" -> "p"
      [] ch = "B" -> "b" [] ch = "R" -> "r" [] OTHER -> ch

ToLower(s) == [i \in 1..Len(s) |-> ToLowerChar(s[i])]

\* strings.Split(s, ","): never empty, Split("") is one empty field
RECURSIVE SplitFrom(_, _, _)
SplitFrom(s, i, cur) ==
    IF i > Len(s) THEN <<cur>>
    ELSE IF s[i] = "," THEN <<cur>> \o SplitFrom(s, i + 1, <<>>)
    ELSE SplitFrom(s, i + 1, Append(cur, s[i]))

Split(s) == SplitFrom(s, 1, <<>>)

IsSpace(ch) == ch \in {" ", "\t"}

RECURSIVE TrimLeft(_)
TrimLeft(s) == IF s # <<>> /\ IsSpace(Head(s)) THEN TrimLeft(Tail(s)) ELSE s

RECURSIVE TrimRight(_)
TrimRight(s) ==
    IF s # <<>> /\ IsSpace(s[Len(s)]) THEN TrimRight(SubSeq(s, 1, Len(s) - 1)) ELSE s

TrimSpace(s) == TrimRight(TrimLeft(s))

\* filepath.Ext: the suffix from the last dot of the last path element
RECURSIVE ExtFrom(_, _)
ExtFrom(path, i) ==
    IF i < 1 \/ path[i] = "/" THEN <<>>
    ELSE IF path[i] = "." THEN SubSeq(path, i, Len(path))
    ELSE ExtFrom(path, i - 1)

Ext(path) == ExtFrom(path, Len(path))

\* strconv.Itoa for n >= 0
Digit(d) ==
    CASE d = 0 -> "0" [] d = 1 -> "1" [] d = 2 -> "2" [] d = 3 -> "3" [] d = 4 -> "4"
      [] d = 5 -> "5" [] d = 6 -> "6" [] d = 7 -> "7" [] d = 8 -> "8" [] d = 9 -> "9"

RECURSIVE Itoa(_)
Itoa(n) == IF n < 10 THEN Digit(n) ELSE Itoa(n \div 10) \o Digit(n % 10)

----------------------------------------------------------------------------
(* Exclusion rules *)

DefaultExcludedExtentions ==
    { <<".", "p", "n", "g">>, <<".", "g", "i", "f">>,
      <<".", "j", "p", "e", "g">>, <<".", "j", "p", "g">> }

ExcludedExtensionsContains(e, target) == target \in e

ExcludedPathsContains(e, requestURI) ==
    \E i \in 1..Len(e) : HasPrefix(requestURI, e[i])

\* regexp.MatchString for the patterns of the model: ".*" (kind "any") and a
\* literal (kind "lit"), both unanchored
MatchString(reg, s) ==
    CASE reg.kind = "any" -> TRUE
      [] reg.kind = "lit" -> Contains(s, reg.lit)

ExcludedPathesRegexsContains(e, requestURI) ==
    \E i \in 1..Len(e) : MatchString(e[i], requestURI)

\* shouldCompress with the regular expressions left out
shouldCompressWithoutRegexs(c, r) ==
    IF ~Contains(r.ae, gzipEncoding) \/ Contains(r.conn, <<"U", "p", "g", "r", "a", "d", "e">>)
    THEN FALSE
    ELSE IF \/ ExcludedExtensionsContains(c.excludedExtensions, Ext(r.path))
            \/ ExcludedPathsContains(c.excludedPaths, r.path)
    THEN FALSE
    ELSE TRUE

shouldCompress(c, r) ==
    IF ~Contains(r.ae, gzipEncoding) \/ Contains(r.conn, <<"U", "p", "g", "r", "a", "d", "e">>)
    THEN FALSE
    ELSE IF \/ ExcludedExtensionsContains(c.excludedExtensions, Ext(r.path))
            \/ ExcludedPathsContains(c.excludedPaths, r.path)
            \/ ExcludedPathesRegexsContains(c.excludedPathesRegexs, r.path)
    THEN FALSE
    ELSE TRUE

----------------------------------------------------------------------------
(* gin.ResponseWriter, below the decorator *)

Tok(k, b) == [k |-> k, b |-> b]

Raw(data) == [i \in 1..Len(data) |-> Tok("raw", data[i])]

Deflated(data) == [i \in 1..Len(data) |-> Tok("z", data[i])]

\* bytes a token takes on the wire
TokLen(t) ==
    CASE t.k = "raw" -> 1 [] t.k = "z" -> 1 [] t.k = "hdr" -> 10
      [] t.k = "sync" -> 5 [] t.k = "fin" -> 2 [] t.k = "ftr" -> 8

RECURSIVE ByteLen(_)
ByteLen(toks) == IF toks = <<>> THEN 0 ELSE TokLen(Head(toks)) + ByteLen(Tail(toks))

NoHeader == [ce |-> "", vary |-> <<>>, etag |-> <<>>, cl |-> ""]

RwWritten(w) == w.size # -1

RwWriteHeader(w, code) ==
    IF code > 0 /\ w.status # code
    THEN IF RwWritten(w) THEN w ELSE [w EXCEPT !.status = code]
    ELSE w

RwWriteHeaderNow(w) == IF ~RwWritten(w) THEN [w EXCEPT !.size = 0] ELSE w

\* the underlying Write returns 0 bytes and an error: after a hijack the
\* server refuses the bytes, and on a connection that is gone the write fails
RwFails(w) == w.hijacked \/ w.broken

\* refused: a Write of this writer has returned an error
RwWrite(w, toks) ==
    LET w1 == RwWriteHeaderNow(w)
    IN  IF RwFails(w1) THEN [w1 EXCEPT !.refused = TRUE]
        ELSE [w1 EXCEPT !.out = @ \o toks, !.size = @ + ByteLen(toks)]

\* Hijack() of the underlying writer: the connection is the caller's
RwHijack(w) == [w EXCEPT !.hijacked = TRUE, !.size = IF @ < 0 THEN 0 ELSE @]

RwFlush(w) == RwWriteHeaderNow(w)

\* c.Header(key, value) and Header().Set / Del / Add on the live header map
HeaderSet(w, k, v) == [w EXCEPT !.header[k] = v]

HeaderDel(w, k) == [w EXCEPT !.header[k] = NoHeader[k]]

HeaderAdd(w, k, v) == [w EXCEPT !.header[k] = Append(@, v)]

----------------------------------------------------------------------------
(* compress/gzip.Writer *)

\* the compression levels of compress/gzip that the package re-exports
BestCompression == 9
DefaultCompression == -1
HuffmanOnly == -2

\* gzip.NewWriterLevel returns an error for a level outside this range
ValidLevel(level) == level >= HuffmanOnly /\ level <= BestCompression

\* err: the error the Writer keeps once a write to its target has failed,
\* and returns from every later Write, Flush and Close until it is Reset
NewWriterLevel ==
    [target |-> "discard", wroteHeader |-> FALSE, closed |-> FALSE, buf |-> <<>>,
     err |-> FALSE]

GzReset(z, target) == [NewWriterLevel EXCEPT !.target = target]

\* the compressor writes toks to its target
GzEmit(w, z, toks) == IF z.target = "rw" THEN RwWrite(w, toks) ELSE w

\* a write of the compressor to its target fails
GzEmitFails(w, z) == z.target = "rw" /\ RwFails(w)

\* Write, Flush and Close return z.err: the error of the state they leave
GzWrite(w, z, data) ==
    IF z.err \/ z.closed THEN [rw |-> w, gz |-> z]
    ELSE IF ~z.wroteHeader /\ GzEmitFails(w, z)
    THEN [rw |-> GzEmit(w, z, <<Tok("hdr", 0)>>),
          gz |-> [z EXCEPT !.wroteHeader = TRUE, !.err = TRUE]]
    ELSE LET w1 == IF z.wroteHeader THEN w ELSE GzEmit(w, z, <<Tok("hdr", 0)>>)
         IN  [rw |-> w1,
              gz |-> [z EXCEPT !.wroteHeader = TRUE, !.buf = @ \o data]]

GzFlush(w, z) ==
    IF z.err \/ z.closed THEN [rw |-> w, gz |-> z]
    ELSE LET h == GzWrite(w, z, <<>>)
         IN  IF h.gz.err THEN h
             ELSE [rw |-> GzEmit(h.rw, h.gz, Deflated(h.gz.buf) \o <<Tok("sync", 0)>>),
                   gz |-> [h.gz EXCEPT !.buf = <<>>, !.err = GzEmitFails(h.rw, h.gz)]]

GzClose(w, z) ==
    IF z.err \/ z.closed THEN [rw |-> w, gz |-> z]
    ELSE LET h  == GzWrite(w, z, <<>>)
             w1 == GzEmit(h.rw, h.gz, Deflated(h.gz.buf) \o <<Tok("fin", 0)>>)
             w2 == GzEmit(w1, h.gz, <<Tok("ftr", 0)>>)
         IN  IF h.gz.err THEN [rw |-> h.rw, gz |-> [h.gz EXCEPT !.closed = TRUE]]
             ELSE IF GzEmitFails(h.rw, h.gz)
             THEN [rw |-> w1, gz |-> [h.gz EXCEPT !.buf = <<>>, !.closed = TRUE, !.err = TRUE]]
             ELSE [rw |-> w2, gz |-> [h.gz EXCEPT !.buf = <<>>, !.closed = TRUE]]

----------------------------------------------------------------------------
(* gzipWriter, the decorator (gzip.go) *)

NoGzipWriter == [installed |-> FALSE, statusWritten |-> FALSE, status |-> 0, headersSet |-> FALSE]

\* the first two bytes are the gzip magic
IsGzipMagic(data) == Len(data) >= 2 /\ data[1] = 31 /\ data[2] = 139

removeGzipHeaders(w) == HeaderDel(HeaderDel(HeaderDel(w, "ce"), "vary"), "etag")

\* setCompressionHeaders without the test for an ETag that is weak already
setCompressionHeadersAlwaysWeakening(w) ==
    LET w1 == HeaderAdd(HeaderSet(w, "ce", "gzip"), "vary", "Accept-Encoding")
        etag == w1.header.etag
    IN  IF etag # <<>>
        THEN HeaderSet(w1, "etag", <<"W", "/">> \o etag)
        ELSE w1

setCompressionHeaders(w) ==
    LET w1 == HeaderAdd(HeaderSet(w, "ce", "gzip"), "vary", "Accept-Encoding")
        etag == w1.header.etag
    IN  IF etag # <<>> /\ ~HasPrefix(etag, <<"W", "/">>)
        THEN HeaderSet(w1, "etag", <<"W", "/">> \o etag)
        ELSE w1

\* the state after g.Write(data): [rw, gz, gw], how the bytes went, and
\* whether the call returned an error
gzipWriterWrite(w, z, g, data) ==
    LET g1 == IF ~g.statusWritten THEN [g EXCEPT !.status = w.status] ELSE g
        through == [rw |-> RwWrite(w, Raw(data)), gz |-> z, gw |-> g1, via |-> "raw",
                    err |-> RwFails(w)]
        ce == w.header.ce
    IN  IF g1.status >= 400
        THEN [rw |-> RwWrite(removeGzipHeaders(w), Raw(data)), gz |-> z, gw |-> g1,
              via |-> "raw", err |-> RwFails(w)]
        ELSE IF ce # "" /\ ce = "gzip" /\ IsGzipMagic(data) THEN through
        ELSE IF ce # "" /\ ce # "gzip" THEN through
        ELSE LET w1 == IF ~g1.headersSet THEN setCompressionHeaders(w) ELSE w
                 h  == GzWrite(HeaderDel(w1, "cl"), z, data)
             IN  [rw |-> h.rw, gz |-> h.gz, gw |-> [g1 EXCEPT !.headersSet = TRUE],
                  via |-> "gz", err |-> h.gz.err]

\* WriteHeader as a version that drops the compression headers at once when
\* the code is an error
gzipWriterWriteHeaderRemovingOnError(w, g, code) ==
    [rw |-> RwWriteHeader(HeaderDel(IF code >= 400 THEN removeGzipHeaders(w) ELSE w, "cl"),
                          code),
     gw |-> [g EXCEPT !.status = code, !.statusWritten = TRUE]]

gzipWriterWriteHeader(w, g, code) ==
    [rw |-> RwWriteHeader(HeaderDel(w, "cl"), code),
     gw |-> [g EXCEPT !.status = code, !.statusWritten = TRUE]]

gzipWriterFlush(w, z) ==
    LET h == GzFlush(w, z) IN [rw |-> RwFlush(h.rw), gz |-> h.gz]

\* g.Hijack(): the underlying writer is a gin.ResponseWriter, which always
\* is an http.Hijacker, and its Hijack is called as it is
gzipWriterHijack(w) == RwHijack(w)

gzipWriterStatus(w, g) == IF g.statusWritten THEN g.status ELSE w.status

\* c.Writer.Status() and c.Writer.Size(), whichever writer is installed
WriterStatus(w, g) == IF g.installed THEN gzipWriterStatus(w, g) ELSE w.status

WriterSize(w) == w.size

----------------------------------------------------------------------------
(* DefaultDecompressHandle, the request decoder *)

NoBody == [present |-> FALSE, layers |-> 0, data |-> <<>>, drained |-> FALSE]

\* gzip.NewReader(body): reads the gzip header of the next layer
NewReader(body) ==
    IF body.layers > 0 /\ ~body.drained
    THEN [ok |-> TRUE, body |-> [body EXCEPT !.layers = @ - 1]]
    ELSE [ok |-> FALSE, body |-> [body EXCEPT !.drained = TRUE]]

\* c.AbortWithError(code, err) on the decoder's state d
AbortWithError(d, code) ==
    [d EXCEPT !.rw = RwWriteHeaderNow(RwWriteHeader(d.rw, code)),
              !.aborted = TRUE,
              !.errs = Append(@, code)]

\* the loop going on after a reader could not be made, as it does after 415
RECURSIVE DecodeLoopOnAfterBadReader(_, _, _)
DecodeLoopOnAfterBadReader(fields, i, d) ==
    IF i > Len(fields) THEN [d EXCEPT !.completed = TRUE]
    ELSE LET trimmedValue == TrimSpace(fields[i])
         IN  IF trimmedValue = <<>> THEN DecodeLoopOnAfterBadReader(fields, i + 1, d)
             ELSE LET d1 == IF trimmedValue # gzipEncoding
                            THEN AbortWithError(d, 415) ELSE d
                      r  == NewReader(d1.body)
                      d2 == IF ~r.ok THEN AbortWithError(d1, 400) ELSE d1
                  IN  DecodeLoopOnAfterBadReader(fields, i + 1,
                          [d2 EXCEPT !.toClose = Append(@, d2.body.layers),
                                     !.body = r.body])

RECURSIVE DecodeLoop(_, _, _)
DecodeLoop(fields, i, d) ==
    IF i > Len(fields) THEN [d EXCEPT !.completed = TRUE]
    ELSE LET trimmedValue == TrimSpace(fields[i])
         IN  IF trimmedValue = <<>> THEN DecodeLoop(fields, i + 1, d)
             ELSE LET d1 == IF trimmedValue # gzipEncoding
                            THEN AbortWithError(d, 415) ELSE d
                      r  == NewReader(d1.body)
                  IN  IF ~r.ok
                      THEN AbortWithError([d1 EXCEPT !.body = r.body], 400)
                      ELSE DecodeLoop(fields, i + 1,
                               [d1 EXCEPT !.toClose = Append(@, d1.body.layers),
                                          !.body = r.body])

\* DefaultDecompressHandle up to its c.Next(): the request, the writer and the
\* context after it; called = FALSE when the body is nil (nothing happens),
\* completed = TRUE when the loop ran to its end and c.Next() is reached
DefaultDecompressHandle(r, w) ==
    LET d0 == [body |-> r.body, rw |-> w, aborted |-> FALSE, errs |-> <<>>,
               toClose |-> <<>>, completed |-> FALSE]
    IN  IF ~r.body.present THEN [d0 EXCEPT !.completed = FALSE]
        ELSE DecodeLoop(Split(ToLower(r.ce)), 1, d0)

\* the deferred loop closing toClose, last first
Reverse(s) == [i \in 1..Len(s) |-> s[Len(s) + 1 - i]]

----------------------------------------------------------------------------
(* The inputs of the model *)

Str_gzip2 == gzipEncoding \o <<",", " ">> \o gzipEncoding
Str_GZIP == <<"G", "Z", "I", "P">>
Str_gzip_spaced == <<" ">> \o gzipEncoding \o <<" ">>
Str_gzip_empty_gzip == gzipEncoding \o <<",", " ", ",">> \o gzipEncoding
Str_deflate == <<"d", "e", "f", "l", "a", "t", "e">>
Str_Upgrade == <<"U", "p", "g", "r", "a", "d", "e">>

Path_data == <<"/", "d">>
Path_png == <<"/", "a", ".", "p", "n", "g">>
Path_html == <<"/", "i", ".", "h", "t", "m", "l">>
Path_api == <<"/", "a", "p", "i", "/", "b">>

Ext_html == <<".", "h", "t", "m", "l">>
Prefix_api == <<"/", "a", "p", "i", "/">>

\* the bytes handlers write: 0x1f, 0x8b and a letter
Chunks == { <<97>>, <<31, 139>> }

StatusCodes == {200, 404}

\* headers the downstream handler sets on the response
HeaderOps ==
    { [k |-> "ce", v |-> "gzip"], [k |-> "ce", v |-> "br"], [k |-> "cl", v |-> "19"] }

\* ETag values the downstream handler sets: a strong and a weak validator
ETags == { <<"e">>, <<"W", "/", "e">> }

\* Gzip(level) with no option; priorVary is the Vary header an earlier
\* middleware of the pipeline has put on every response
DefaultConfig ==
    [decompressOnly |-> FALSE, custom |-> FALSE, combine |-> FALSE, decompressFn |-> FALSE,
     excludedExtensions |-> DefaultExcludedExtentions, excludedPaths |-> <<>>,
     excludedPathesRegexs |-> <<>>, priorVary |-> <<>>, level |-> DefaultCompression]

\* the pipeline of _example/main.go: a middleware adds Vary: Origin first
WriterConfigs == { [DefaultConfig EXCEPT !.priorVary = v] : v \in {<<>>, <<"Origin">>} }

PlainRequest ==
    [ae |-> gzipEncoding, conn |-> <<>>, path |-> Path_data, ce |-> <<>>, cl |-> "",
     body |-> NoBody, vote |-> FALSE]

\* configurations: the exclusion lists, the custom predicate and combine mode
DecisionConfigs ==
    { [DefaultConfig EXCEPT !.custom = cu, !.combine = co, !.excludedExtensions = ee,
                            !.excludedPaths = ep, !.excludedPathesRegexs = er] :
        cu \in BOOLEAN, co \in BOOLEAN,
        ee \in {DefaultExcludedExtentions, {Ext_html}},
        ep \in {<<>>, <<Prefix_api>>},
        er \in {<<>>, <<[kind |-> "lit", lit |-> <<"h", "t", "m">>]>>} }

DecisionRequests ==
    { [PlainRequest EXCEPT !.ae = a, !.conn = cn, !.path = p, !.vote = v] :
        a \in {<<>>, gzipEncoding, Str_deflate \o <<",">> \o gzipEncoding, Str_deflate},
        cn \in {<<>>, Str_Upgrade},
        p \in {Path_data, Path_png, Path_html, Path_api},
        v \in BOOLEAN }

DecodeConfigs ==
    { [DefaultConfig EXCEPT !.decompressOnly = d, !.decompressFn = f] :
        d \in BOOLEAN, f \in BOOLEAN }

Bodies ==
    {NoBody} \cup
    { [present |-> TRUE, layers |-> n, data |-> <<97>>, drained |-> FALSE] : n \in 0..MaxLayers }

RECURSIVE GzipChain(_)
GzipChain(n) == IF n <= 1 THEN gzipEncoding ELSE gzipEncoding \o <<",", " ">> \o GzipChain(n - 1)

DecodeRequests ==
    { [PlainRequest EXCEPT !.ae = a, !.ce = e, !.cl = l, !.body = b] :
        a \in {<<>>, gzipEncoding},
        e \in {<<>>, Str_deflate, gzipEncoding \o <<",", " ">> \o Str_deflate}
                \cup {GzipChain(n) : n \in 1..MaxLayers}
                \cup {Str_GZIP, Str_gzip_spaced, Str_gzip_empty_gzip},
        l \in {"", "7"},
        b \in Bodies }

----------------------------------------------------------------------------
(* Requests running Handle at the same time, on one gzipHandler *)

ReqIds == 1..MaxRequests

\* compressors are told apart by the order New made them in; one more than
\* there are requests can exist, since Get may call New beside a filled pool
GzIds == 1..(MaxRequests + 1)

\* per request r: at[r], where it is in Handle, and held[r], its local gz
\* (0: none); pool, the idle compressors; made, how many New has made; per
\* compressor z: target[z], the request whose writer it writes to (0:
\* io.Discard), and user[z], the request that put it back last (0: none)
NoRequests ==
    [at |-> [r \in ReqIds |-> "idle"], held |-> [r \in ReqIds |-> 0], pool |-> {},
     made |-> 0, target |-> [z \in GzIds |-> 0], user |-> [z \in GzIds |-> 0]]

\* the variables of the single request modelled above stay as they are
OneRequestUnchanged ==
    UNCHANGED <<cfg, req0, req, pc, ret, limit, budget, aborted, errs, handlerRuns,
                seen, toClose, closeLog, rw, gw, gz, gzPool, hist>>

\* the pool after a Get that did not hand out its member z
PoolKeeping(pool, z) == pool

\* the pool after Get has handed out its member z
PoolWithout(pool, z) == pool \ {z}

\* line 69: gz := g.gzPool.Get(), an idle compressor or one New makes; New
\* panics when gzip.NewWriterLevel refuses the level (lines 39-44), and the
\* panic ends the request that called Get
ConcGet(r) ==
    /\ conc.at[r] = "idle"
    /\ \/ \E z \in conc.pool :
             conc' = [conc EXCEPT !.at[r] = "got", !.held[r] = z,
                                  !.pool = PoolWithout(conc.pool, z)]
       \/ /\ conc.made + 1 \in GzIds
          /\ conc' = IF ValidLevel(cfg.level)
                     THEN [conc EXCEPT !.at[r] = "got", !.held[r] = conc.made + 1,
                                       !.made = @ + 1]
                     ELSE [conc EXCEPT !.at[r] = "panicked"]
    /\ OneRequestUnchanged

\* line 72: gz.Reset(c.Writer)
ConcBind(r) ==
    /\ conc.at[r] = "got"
    /\ conc' = [conc EXCEPT !.at[r] = "serving", !.target[conc.held[r]] = r]
    /\ OneRequestUnchanged

\* lines 77-86, the deferred function: gz.Close() after the handler's writes
ConcClose(r) ==
    /\ conc.at[r] = "serving"
    /\ conc' = [conc EXCEPT !.at[r] = "closed"]
    /\ OneRequestUnchanged

\* Handle without its deferred gz.Reset(io.Discard): the compressor goes
\* on to the pool bound to the writer of r
ConcResetKeepingTarget(r) ==
    /\ conc.at[r] = "closed"
    /\ conc' = [conc EXCEPT !.at[r] = "reset"]
    /\ OneRequestUnchanged

\* line 71, deferred: gz.Reset(io.Discard)
ConcReset(r) ==
    /\ conc.at[r] = "closed"
    /\ conc' = [conc EXCEPT !.at[r] = "reset", !.target[conc.held[r]] = 0]
    /\ OneRequestUnchanged

\* line 70, deferred: g.gzPool.Put(gz), and Handle returns
ConcPut(r) ==
    /\ conc.at[r] = "reset"
    /\ conc' = [conc EXCEPT !.at[r] = "idle", !.held[r] = 0,
                             !.pool = @ \cup {conc.held[r]},
                             !.user[conc.held[r]] = r]
    /\ OneRequestUnchanged

----------------------------------------------------------------------------
(* The request's way through gzipHandler.Handle *)

\* the writer a new request gets, after the earlier middleware ran
NewResponseWriter(c) ==
    [status |-> 200, size |-> -1, header |-> [NoHeader EXCEPT !.vary = c.priorVary],
     out |-> <<>>, hijacked |-> FALSE, broken |-> FALSE, refused |-> FALSE]

\* history of the handler's calls: the bytes it wrote, whether it set
\* Content-Encoding or an error status itself, which way its writes went,
\* ref, the writer as those same calls leave it with no decorator installed,
\* first, the headers the handler had set, the code of its latest WriteHeader
\* and the way taken at its first body write, last, the code of its latest
\* WriteHeader (0: none), other,
\* whether it made a call that is neither Write nor WriteHeader, via, the way
\* its latest write went, rawThenGz and gzThenRaw, whether a write through the
\* compressor followed a raw one and the reverse, panicked, whether it
\* ended in a panic, and told, whether one of its Writes returned an error
NoHist(c) ==
    [written |-> <<>>, writes |-> 0, setCE |-> FALSE, sawErr |-> FALSE, raw |-> FALSE,
     gz |-> FALSE, ref |-> NewResponseWriter(c),
     first |-> [header |-> NoHeader, via |-> "none", last |-> 0], last |-> 0, other |-> FALSE,
     via |-> "none", rawThenGz |-> FALSE, gzThenRaw |-> FALSE, panicked |-> FALSE,
     told |-> FALSE]

InitWith(c, r, n) ==
    /\ cfg = c
    /\ req0 = r
    /\ req = r
    /\ pc = "begin"
    /\ ret = "done"
    /\ limit = n
    /\ budget = n
    /\ aborted = FALSE
    /\ errs = <<>>
    /\ handlerRuns = 0
    /\ seen = [body |-> NoBody, ce |-> <<>>, cl |-> "", wrapped |-> FALSE]
    /\ toClose = <<>>
    /\ closeLog = <<>>
    /\ rw = NewResponseWriter(c)
    /\ gw = NoGzipWriter
    /\ gz = NewWriterLevel
    /\ gzPool = <<>>
    /\ hist = NoHist(c)
    /\ conc = NoRequests

\* c.Next() as called from where: the downstream handler runs unless it ran
\* already or the context is aborted, and control then returns to `after`
RunNext(after) ==
    IF handlerRuns = 0 /\ ~aborted'
    THEN /\ pc' = "handler"
         /\ ret' = after
         /\ handlerRuns' = 1
         /\ seen' = [body |-> req'.body, ce |-> req'.ce, cl |-> req'.cl,
                     wrapped |-> gw'.installed]
    ELSE /\ pc' = after
         /\ UNCHANGED <<ret, handlerRuns, seen>>

\* Handle, lines 59-61: the request decoder, up to the c.Next() it ends with
HandleDecompress ==
    /\ pc = "begin"
    /\ IF cfg.decompressFn /\ req.ce = gzipEncoding
       THEN LET d == DefaultDecompressHandle(req, rw)
            IN  /\ req' = IF d.completed
                          THEN [req EXCEPT !.body = d.body, !.ce = <<>>, !.cl = ""]
                          ELSE [req EXCEPT !.body = d.body]
                /\ rw' = d.rw
                /\ aborted' = d.aborted
                /\ errs' = d.errs
                /\ UNCHANGED gw
                /\ IF d.completed /\ ~d.aborted /\ handlerRuns = 0
                   THEN /\ toClose' = d.toClose
                        /\ UNCHANGED closeLog
                        /\ RunNext("decoded")
                   ELSE /\ toClose' = <<>>
                        /\ closeLog' = closeLog \o Reverse(d.toClose)
                        /\ pc' = "gate"
                        /\ UNCHANGED <<ret, handlerRuns, seen>>
       ELSE /\ pc' = "gate"
            /\ UNCHANGED <<req, rw, aborted, errs, toClose, closeLog, ret, handlerRuns,
                           seen, gw>>
    /\ UNCHANGED <<cfg, req0, limit, budget, gz, gzPool, hist, conc>>

\* the early return with the decompress-only flag left out
SkipCompressionWithoutDecompressOnly(c, r) ==
    \/ (c.custom /\ ~r.vote)
    \/ (~c.custom /\ ~shouldCompress(c, r))

\* the condition of Handle's early return, lines 63-65
SkipCompression(c, r) ==
    \/ c.decompressOnly
    \/ (c.custom /\ ~r.vote)
    \/ (~c.custom /\ ~shouldCompress(c, r))

\* g.gzPool.Get(): an idle compressor, or a new one
PoolGet(pool) == IF pool = <<>> THEN NewWriterLevel ELSE Head(pool)

PoolRest(pool) == IF pool = <<>> THEN pool ELSE Tail(pool)

PoolPut(pool, z) == Append(pool, z)

\* Handle, lines 63-76 and the c.Next() of line 87
HandleGate ==
    /\ pc = "gate"
    /\ UNCHANGED aborted
    /\ UNCHANGED req
    /\ IF SkipCompression(cfg, req)
       THEN /\ UNCHANGED <<rw, gw, gz, gzPool>>
            /\ RunNext("done")
       ELSE /\ gz' = GzReset(PoolGet(gzPool), "rw")
            /\ gzPool' = PoolRest(gzPool)
            /\ rw' = HeaderSet(HeaderSet(rw, "ce", "gzip"), "vary", <<"Accept-Encoding">>)
            /\ gw' = [NoGzipWriter EXCEPT !.installed = TRUE]
            /\ RunNext("defer")
    /\ UNCHANGED <<cfg, req0, limit, budget, errs, toClose, closeLog, hist, conc>>

\* the deferred function reading the size before it closes the compressor
HandleDeferredLengthFirst(w, z) ==
    LET z1 == IF WriterSize(w) < 0 THEN GzReset(z, "discard") ELSE z
        w1 == IF WriterSize(w) > -1 THEN HeaderSet(w, "cl", Itoa(WriterSize(w))) ELSE w
    IN  GzClose(w1, z1)

\* the deferred function of lines 77-86: [rw, gz] after it
HandleDeferred(w, z) ==
    LET z1 == IF WriterSize(w) < 0 THEN GzReset(z, "discard") ELSE z
        h  == GzClose(w, z1)
    IN  IF WriterSize(h.rw) > -1
        THEN [rw |-> HeaderSet(h.rw, "cl", Itoa(WriterSize(h.rw))), gz |-> h.gz]
        ELSE h

\* the deferred calls in another order: the reset to the discard sink
\* first, then the closing function, then the release
HandleDeferResetFirst ==
    /\ pc = "defer"
    /\ LET h == HandleDeferred(rw, GzReset(gz, "discard"))
       IN  /\ rw' = h.rw
           /\ gzPool' = PoolPut(gzPool, h.gz)
           /\ gz' = NewWriterLevel
    /\ pc' = "done"
    /\ UNCHANGED <<cfg, req0, req, ret, limit, budget, aborted, errs, handlerRuns, seen,
                   toClose, closeLog, gw, hist, conc>>

\* Handle returns: the deferred calls of lines 77-86, 71 and 70, in that order
HandleDefer ==
    /\ pc = "defer"
    /\ LET h == HandleDeferred(rw, gz)
       IN  /\ rw' = h.rw
           /\ gzPool' = PoolPut(gzPool, GzReset(h.gz, "discard"))
           /\ gz' = NewWriterLevel
    /\ pc' = "done"
    /\ UNCHANGED <<cfg, req0, req, ret, limit, budget, aborted, errs, handlerRuns, seen,
                   toClose, closeLog, gw, hist, conc>>

----------------------------------------------------------------------------
(* The downstream handler: calls on c.Writer *)

HandlerStep ==
    /\ pc = "handler"
    /\ budget > 0
    /\ budget' = budget - 1
    /\ UNCHANGED <<cfg, req0, req, pc, ret, limit, aborted, errs, handlerRuns, seen,
                   toClose, closeLog, gzPool, conc>>

\* c.Writer.Write(data)
HWrite ==
    /\ HandlerStep
    /\ \E data \in Chunks :
        /\ IF gw.installed
           THEN LET h == gzipWriterWrite(rw, gz, gw, data)
                IN  /\ rw' = h.rw
                    /\ gz' = h.gz
                    /\ gw' = h.gw
                    /\ hist' = [hist EXCEPT !.written = @ \o data, !.writes = @ + 1,
                                            !.raw = @ \/ h.via = "raw",
                                            !.gz = @ \/ h.via = "gz",
                                            !.via = h.via,
                                            !.told = @ \/ h.err,
                                            !.rawThenGz = @ \/ (hist.raw /\ h.via = "gz"),
                                            !.gzThenRaw = @ \/ (hist.gz /\ h.via = "raw"),
                                            !.ref = RwWrite(@, Raw(data)),
                                            !.first = IF hist.writes = 0
                                                      THEN [header |-> hist.ref.header,
                                                            via |-> h.via,
                                                            last |-> hist.last]
                                                      ELSE @]
           ELSE /\ rw' = RwWrite(rw, Raw(data))
                /\ UNCHANGED <<gz, gw>>
                /\ hist' = [hist EXCEPT !.written = @ \o data, !.writes = @ + 1,
                                        !.via = "raw",
                                        !.told = @ \/ RwFails(rw),
                                        !.ref = RwWrite(@, Raw(data)),
                                        !.first = IF hist.writes = 0
                                                  THEN [header |-> hist.ref.header,
                                                        via |-> "raw",
                                                        last |-> hist.last]
                                                  ELSE @]

\* c.Writer.WriteHeader(code)
HWriteHeader ==
    /\ HandlerStep
    /\ \E code \in StatusCodes :
        /\ IF gw.installed
           THEN LET h == gzipWriterWriteHeader(rw, gw, code)
                IN  rw' = h.rw /\ gw' = h.gw
           ELSE rw' = RwWriteHeader(rw, code) /\ UNCHANGED gw
        /\ hist' = [hist EXCEPT !.ref = RwWriteHeader(@, code),
                                !.sawErr = @ \/ code >= 400,
                                !.last = code]
    /\ UNCHANGED gz

\* c.Writer.WriteHeaderNow(): the decorator forwards it (gzip.go 109-111)
HWriteHeaderNow ==
    /\ HandlerStep
    /\ rw' = RwWriteHeaderNow(rw)
    /\ hist' = [hist EXCEPT !.ref = RwWriteHeaderNow(@), !.other = TRUE]
    /\ UNCHANGED <<gz, gw>>

\* c.Writer.Flush()
HFlush ==
    /\ HandlerStep
    /\ IF gw.installed
       THEN LET h == gzipWriterFlush(rw, gz)
            IN  rw' = h.rw /\ gz' = h.gz
       ELSE rw' = RwFlush(rw) /\ UNCHANGED gz
    /\ hist' = [hist EXCEPT !.ref = RwFlush(@), !.other = TRUE]
    /\ UNCHANGED gw

\* c.Header(key, value)
HSetHeader ==
    /\ HandlerStep
    /\ \E h \in HeaderOps :
        /\ rw' = HeaderSet(rw, h.k, h.v)
        /\ hist' = [hist EXCEPT !.ref = HeaderSet(@, h.k, h.v),
                                !.setCE = @ \/ h.k = "ce",
                                !.other = TRUE]
    /\ UNCHANGED <<gz, gw>>

\* c.Header("ETag", value)
HSetETag ==
    /\ HandlerStep
    /\ \E e \in ETags :
        /\ rw' = HeaderSet(rw, "etag", e)
        /\ hist' = [hist EXCEPT !.ref = HeaderSet(@, "etag", e), !.other = TRUE]
    /\ UNCHANGED <<gz, gw>>

\* c.Writer.Header().Add("Vary", "Origin")
HAddVary ==
    /\ HandlerStep
    /\ rw' = HeaderAdd(rw, "vary", "Origin")
    /\ hist' = [hist EXCEPT !.ref = HeaderAdd(@, "vary", "Origin"), !.other = TRUE]
    /\ UNCHANGED <<gz, gw>>

\* c.Writer.(http.Hijacker).Hijack()
HHijack ==
    /\ HandlerStep
    /\ ~rw.hijacked
    /\ rw' = IF gw.installed THEN gzipWriterHijack(rw) ELSE RwHijack(rw)
    /\ hist' = [hist EXCEPT !.ref = RwHijack(@), !.other = TRUE]
    /\ UNCHANGED <<gz, gw>>

\* the downstream handler returns: to Handle, to the engine, or into
\* DefaultDecompressHandle, whose deferred loop then closes toClose
HReturn ==
    /\ pc = "handler"
    /\ IF ret = "decoded"
       THEN /\ closeLog' = closeLog \o Reverse(toClose)
            /\ toClose' = <<>>
            /\ pc' = "gate"
       ELSE /\ pc' = ret
            /\ UNCHANGED <<toClose, closeLog>>
    /\ UNCHANGED <<cfg, req0, req, ret, limit, budget, aborted, errs, handlerRuns, seen,
                   rw, gw, gz, gzPool, hist, conc>>

\* the downstream handler panics: the stack unwinds through the deferred
\* functions of the frames below it, the decoder's deferred loop and, when
\* Handle has registered them, Handle's three deferred calls; a panic under
\* the decoder leaves Handle before it acquires a compressor
HPanic ==
    /\ pc = "handler"
    /\ IF ret = "decoded"
       THEN /\ closeLog' = closeLog \o Reverse(toClose)
            /\ toClose' = <<>>
            /\ pc' = "done"
       ELSE /\ pc' = ret
            /\ UNCHANGED <<toClose, closeLog>>
    /\ hist' = [hist EXCEPT !.panicked = TRUE]
    /\ UNCHANGED <<cfg, req0, req, ret, limit, budget, aborted, errs, handlerRuns, seen,
                   rw, gw, gz, gzPool, conc>>

\* the client sends the same request again: a new context and writer, the
\* same middleware and pool
NewRequest ==
    /\ pc = "done"
    /\ pc' = "begin"
    /\ req' = req0
    /\ ret' = "done"
    /\ budget' = limit
    /\ aborted' = FALSE
    /\ errs' = <<>>
    /\ handlerRuns' = 0
    /\ seen' = [body |-> NoBody, ce |-> <<>>, cl |-> "", wrapped |-> FALSE]
    /\ toClose' = <<>>
    /\ closeLog' = <<>>
    /\ rw' = NewResponseWriter(cfg)
    /\ gw' = NoGzipWriter
    /\ hist' = NoHist(cfg)
    /\ UNCHANGED <<cfg, req0, limit, gz, gzPool, conc>>

Next ==
    \/ HandleDecompress
    \/ HandleGate
    \/ HandleDefer
    \/ HWrite
    \/ HWriteHeader
    \/ HWriteHeaderNow
    \/ HFlush
    \/ HSetHeader
    \/ HSetETag
    \/ HAddVary
    \/ HReturn
    \/ HPanic
    \/ NewRequest

\* one request with the default configuration, the handler making MaxOps calls
Init == \E c \in WriterConfigs : InitWith(c, PlainRequest, MaxOps)

Spec == Init /\ [][Next]_vars

\* every configuration of the exclusion rules, on every request
InitDecision ==
    \E c \in DecisionConfigs, r \in DecisionRequests : InitWith(c, r, MaxOpsDecision)

SpecDecision == InitDecision /\ [][Next]_vars

\* the request decoder, on every request body
InitDecode ==
    \E c \in DecodeConfigs, r \in DecodeRequests : InitWith(c, r, MaxOpsDecision)

SpecDecode == InitDecode /\ [][Next]_vars

\* requests passing through Handle concurrently, each step of each at any time
NextPool ==
    \/ \E r \in ReqIds : ConcGet(r)
    \/ \E r \in ReqIds : ConcBind(r)
    \/ \E r \in ReqIds : ConcClose(r)
    \/ \E r \in ReqIds : ConcReset(r)
    \/ \E r \in ReqIds : ConcPut(r)

\* the levels Gzip is called with: the default, the two ends of the valid
\* range and the values next to them
Levels == {HuffmanOnly - 1, HuffmanOnly, DefaultCompression, BestCompression,
           BestCompression + 1}

\* newGzipHandler returns a handler for any level: it makes no compressor
InitPool ==
    \E l \in Levels : InitWith([DefaultConfig EXCEPT !.level = l], PlainRequest, MaxOps)

SpecPool == InitPool /\ [][NextPool]_vars

\* handlers that may also take the connection over
NextHijack == Next \/ HHijack

SpecHijack == Init /\ [][NextHijack]_vars

\* the client goes away while the request is served: from then on every
\* write to the underlying writer fails
Disconnect ==
    /\ pc \in {"handler", "defer"}
    /\ ~rw.broken
    /\ rw' = [rw EXCEPT !.broken = TRUE]
    /\ hist' = [hist EXCEPT !.ref.broken = TRUE]
    /\ UNCHANGED <<cfg, req0, req, pc, ret, limit, budget, aborted, errs, handlerRuns, seen,
                   toClose, closeLog, gw, gz, gzPool, conc>>

NextDisconnect == Next \/ Disconnect

SpecDisconnect == Init /\ [][NextDisconnect]_vars

----------------------------------------------------------------------------
(* Gzip(level, minLength), the middleware with a minimum length
   (gzip.go 313-432): its own writer, with a buffer and a compress flag *)

Str_event_stream ==
    <<"t", "e", "x", "t", "/", "e", "v", "e", "n", "t", "-", "s", "t", "r", "e", "a", "m">>

\* shouldCompress of this version: the headers, then the extension
shouldCompressML(r) ==
    IF \/ ~Contains(r.ae, gzipEncoding)
       \/ Contains(r.conn, Str_Upgrade)
       \/ Contains(r.ct, Str_event_stream)
    THEN FALSE
    ELSE LET extension == Ext(r.path)
         IN  IF Len(extension) < 4 THEN TRUE
             ELSE extension \notin { <<".", "p", "n", "g">>, <<".", "g", "i", "f">>,
                                     <<".", "j", "p", "e", "g">>, <<".", "j", "p", "g">> }

\* the writer Gzip installs: nothing buffered, compression not chosen
NewGzipWriterML(minLength) ==
    [installed |-> TRUE, buffer |-> <<>>, minLength |-> minLength, compress |-> FALSE]

\* Write deciding on the size of each chunk alone: what is buffered is
\* never measured against the minimum
gzipWriterWriteMLChunkOnly(w, z, g, data) ==
    LET big == ~g.compress /\ Len(data) >= g.minLength
        w1  == IF big
               THEN HeaderSet(HeaderSet(w, "ce", "gzip"), "vary", <<"Accept-Encoding">>)
               ELSE w
        g1  == IF big THEN [g EXCEPT !.compress = TRUE] ELSE g
    IN  IF ~g1.compress
        THEN [rw |-> w1, gz |-> z, gw |-> [g1 EXCEPT !.buffer = @ \o data]]
        ELSE LET h == GzWrite(w1, z, data)
             IN  [rw |-> h.rw, gz |-> h.gz, gw |-> g1]

\* the state after g.Write(data): [rw, gz, gw]
gzipWriterWriteML(w, z, g, data) ==
    LET big == ~g.compress /\ Len(data) >= g.minLength
        w1  == IF big
               THEN HeaderSet(HeaderSet(w, "ce", "gzip"), "vary", <<"Accept-Encoding">>)
               ELSE w
        g1  == IF big THEN [g EXCEPT !.compress = TRUE] ELSE g
    IN  IF ~g1.compress
        THEN LET g2 == [g1 EXCEPT !.buffer = @ \o data]
             IN  IF Len(g2.buffer) >= g2.minLength
                 THEN LET w2 == HeaderSet(HeaderSet(w1, "ce", "gzip"), "vary",
                                          <<"Accept-Encoding">>)
                          h  == GzWrite(w2, z, g2.buffer)
                      IN  [rw |-> h.rw, gz |-> h.gz, gw |-> [g2 EXCEPT !.compress = TRUE]]
                 ELSE [rw |-> w1, gz |-> z, gw |-> g2]
        ELSE LET h == GzWrite(w1, z, data)
             IN  [rw |-> h.rw, gz |-> h.gz, gw |-> g1]

gzipWriterWriteHeaderML(w, code) == RwWriteHeader(HeaderDel(w, "cl"), code)

\* minimum lengths, 0 being no minimum
MinLengths == 0..MaxMinLength

\* the bytes handlers write, in chunks of one and of two bytes
ChunksML == { <<97>>, <<98, 99>> }

\* the Content-Length values handlers declare
LengthsML == {1, 3}

RequestsML ==
    { [ct |-> t] @@ [PlainRequest EXCEPT !.ae = a, !.path = p] :
        a \in {<<>>, gzipEncoding}, p \in {Path_data, Path_png},
        t \in {<<>>, Str_event_stream} }

\* the middleware up to its c.Next(), lines 323-340
GzipML ==
    /\ pc = "begin"
    /\ UNCHANGED aborted
    /\ UNCHANGED req
    /\ IF ~shouldCompressML(req)
       THEN /\ UNCHANGED <<gw, gz, gzPool>>
            /\ RunNext("done")
       ELSE /\ gz' = GzReset(PoolGet(gzPool), "rw")
            /\ gzPool' = PoolRest(gzPool)
            /\ gw' = NewGzipWriterML(cfg.minLength)
            /\ RunNext("after")
    /\ UNCHANGED <<cfg, req0, limit, budget, errs, toClose, closeLog, rw, hist, conc>>

\* the middleware after c.Next() has returned, lines 342-355 and the
\* deferred Put of line 328
GzipMLAfterNext ==
    /\ pc = "after"
    /\ LET h == IF gw.compress
                THEN GzClose(rw, gz)
                ELSE [rw |-> RwWrite(rw, Raw(gw.buffer)), gz |-> GzReset(gz, "discard")]
       IN  /\ rw' = HeaderSet(h.rw, "cl", Itoa(WriterSize(h.rw)))
           /\ gzPool' = PoolPut(gzPool, h.gz)
           /\ gz' = NewWriterLevel
    /\ pc' = "done"
    /\ UNCHANGED <<cfg, req0, req, ret, limit, budget, aborted, errs, handlerRuns, seen,
                   toClose, closeLog, gw, hist, conc>>

\* c.Writer.Write(data)
HWriteML ==
    /\ HandlerStep
    /\ \E data \in ChunksML :
        /\ IF gw.installed
           THEN LET h == gzipWriterWriteML(rw, gz, gw, data)
                IN  rw' = h.rw /\ gz' = h.gz /\ gw' = h.gw
           ELSE rw' = RwWrite(rw, Raw(data)) /\ UNCHANGED <<gz, gw>>
        /\ hist' = [hist EXCEPT !.written = @ \o data, !.writes = @ + 1,
                                !.ref = RwWrite(@, Raw(data)),
                                !.first = IF hist.writes = 0
                                          THEN [@ EXCEPT !.header = hist.ref.header,
                                                         !.last = hist.last]
                                          ELSE @]

\* c.Writer.WriteHeader(code)
HWriteHeaderML ==
    /\ HandlerStep
    /\ \E code \in StatusCodes :
        /\ rw' = IF gw.installed THEN gzipWriterWriteHeaderML(rw, code)
                 ELSE RwWriteHeader(rw, code)
        /\ hist' = [hist EXCEPT !.ref = RwWriteHeader(@, code), !.last = code]
    /\ UNCHANGED <<gz, gw>>

\* c.Header("Content-Length", n)
HSetLengthML ==
    /\ HandlerStep
    /\ \E n \in LengthsML :
        /\ rw' = HeaderSet(rw, "cl", Itoa(n))
        /\ hist' = [hist EXCEPT !.ref = HeaderSet(@, "cl", Itoa(n)), !.other = TRUE]
    /\ UNCHANGED <<gz, gw>>

NextML ==
    \/ GzipML
    \/ GzipMLAfterNext
    \/ HWriteML
    \/ HWriteHeaderML
    \/ HSetLengthML
    \/ HReturn
    \/ NewRequest

\* one request to the middleware with a minimum length
InitML ==
    \E L \in MinLengths, r \in RequestsML :
        InitWith([minLength |-> L] @@ DefaultConfig, r, MaxOps)

SpecML == InitML /\ [][NextML]_vars

----------------------------------------------------------------------------
(* DefaultDecompressHandle called as a handler of its own, on requests with
   any Content-Encoding: Handle passes it only the value "gzip" *)


\* Content-Encoding values: none, only empty segments, one and two gzip
\* tokens in several spellings, and values with a token that is not gzip
DecoderEncodings ==
    { <<>>, <<",", " ">>, gzipEncoding, Str_GZIP, Str_gzip_spaced, Str_gzip2,
      Str_gzip_empty_gzip, Str_deflate, gzipEncoding \o <<",", " ">> \o Str_deflate,
      Str_deflate \o <<",">> \o gzipEncoding }

DecoderRequests ==
    { [PlainRequest EXCEPT !.ce = e, !.cl = l, !.body = b] :
        e \in DecoderEncodings, l \in {"", "7"}, b \in Bodies }

\* DefaultDecompressHandle, lines 107-160: with no body it returns and the
\* engine calls the next handler; after the loop it drops the two headers
\* and calls c.Next() itself; after a failed reader it returns, and the
\* deferred loop closes toClose
DecoderRun ==
    /\ pc = "begin"
    /\ LET d == DefaultDecompressHandle(req, rw)
       IN  /\ req' = IF ~req.body.present THEN req
                     ELSE IF d.completed
                     THEN [req EXCEPT !.body = d.body, !.ce = <<>>, !.cl = ""]
                     ELSE [req EXCEPT !.body = d.body]
           /\ rw' = d.rw
           /\ aborted' = d.aborted
           /\ errs' = d.errs
           /\ UNCHANGED gw
           /\ IF ~req.body.present
              THEN /\ UNCHANGED <<toClose, closeLog>>
                   /\ RunNext("done")
              ELSE IF d.completed /\ ~d.aborted
              THEN /\ toClose' = d.toClose
                   /\ UNCHANGED closeLog
                   /\ RunNext("decoder")
              ELSE /\ toClose' = <<>>
                   /\ closeLog' = closeLog \o Reverse(d.toClose)
                   /\ pc' = "done"
                   /\ UNCHANGED <<ret, handlerRuns, seen>>
    /\ UNCHANGED <<cfg, req0, limit, budget, gz, gzPool, hist, conc>>

\* the downstream handler returns or panics: into the decoder, whose
\* deferred loop closes toClose, or to the engine
DecoderHandlerEnds ==
    /\ pc = "handler"
    /\ pc' = "done"
    /\ IF ret = "decoder"
       THEN /\ closeLog' = closeLog \o Reverse(toClose)
            /\ toClose' = <<>>
       ELSE UNCHANGED <<toClose, closeLog>>
    /\ UNCHANGED <<cfg, req0, req, ret, limit, budget, aborted, errs, handlerRuns, seen,
                   rw, gw, gz, gzPool, hist, conc>>

NextDecoder ==
    \/ DecoderRun
    \/ HWrite
    \/ HWriteHeader
    \/ DecoderHandlerEnds

InitDecoder == \E r \in DecoderRequests : InitWith(DefaultConfig, r, MaxOpsDecision)

SpecDecoder == InitDecoder /\ [][NextDecoder]_vars

----------------------------------------------------------------------------
(* What the claims speak of *)

\* the request is complete: Handle and the downstream handler have returned
Done == pc = "done"

\* Handle is past its early return: the writer the handler gets is settled
PastGate == pc \in {"defer", "done"} \/ (pc = "handler" /\ ret # "decoded")

\* the response is an error response: the status sent to the client and the
\* status c.Writer.Status() reports are both >= 400
FinalStatusIsError == rw.status >= 400 /\ WriterStatus(rw, gw) >= 400

\* the request as received passes Handle's early return
Eligible == ~SkipCompression(cfg, req0)

HasSuffix(s, x) == Len(s) >= Len(x) /\ SubSeq(s, Len(s) - Len(x) + 1, Len(s)) = x

\* the exclusion rules as the specification words them
RefExcluded(c, r) ==
    \/ \E e \in c.excludedExtensions : HasSuffix(r.path, e)
    \/ \E i \in 1..Len(c.excludedPaths) : HasPrefix(r.path, c.excludedPaths[i])
    \/ \E i \in 1..Len(c.excludedPathesRegexs) : MatchString(c.excludedPathesRegexs[i], r.path)

AcceptsGzip(r) == Contains(r.ae, gzipEncoding)

SignalsUpgrade(r) == Contains(r.conn, Str_Upgrade)

RefEligible(c, r) == AcceptsGzip(r) /\ ~SignalsUpgrade(r) /\ ~RefExcluded(c, r)

\* toks is one complete gzip stream
IsGzipStream(toks) ==
    /\ Len(toks) >= 3
    /\ toks[1].k = "hdr"
    /\ toks[Len(toks) - 1].k = "fin"
    /\ toks[Len(toks)].k = "ftr"
    /\ \A i \in 2..(Len(toks) - 2) : toks[i].k \in {"z", "sync"}

IsPayload(t) == t.k = "z"

\* the bytes a gzip stream decodes to
Gunzip(toks) == LET zs == SelectSeq(toks, IsPayload) IN [i \in 1..Len(zs) |-> zs[i].b]

\* a gzip stream of no payload: header, final block, footer
EmptyGzipStream == <<Tok("hdr", 0), Tok("fin", 0), Tok("ftr", 0)>>

\* how many times v occurs in the header values vs
RECURSIVE Count(_, _)
Count(vs, v) ==
    IF vs = <<>> THEN 0
    ELSE (IF Head(vs) = v THEN 1 ELSE 0) + Count(Tail(vs), v)

\* the layer left Content-Encoding, Vary and ETag as the handler set them
HandlerHeadersKept ==
    /\ rw.header.ce = hist.ref.header.ce
    /\ rw.header.vary = hist.ref.header.vary
    /\ rw.header.etag = hist.ref.header.etag

\* the tokens of a Content-Encoding value, as the decoder reads them
Tokens(ce) ==
    LET fields == Split(ToLower(ce))
    IN  [i \in 1..Len(fields) |-> TrimSpace(fields[i])]

\* ce holds a token that is not gzip
HasForeignToken(ce) ==
    \E i \in 1..Len(Tokens(ce)) : Tokens(ce)[i] # <<>> /\ Tokens(ce)[i] # gzipEncoding

\* the request failed with this status
FailedWith(code) == \E i \in 1..Len(errs) : errs[i] = code

----------------------------------------------------------------------------
(* Claims *)

\* C1: on an eligible request whose status at completion is >= 400, the
\* response headers at completion hold no Content-Encoding and no Vary,
\* whatever the handler wrote, and also when it wrote no body.
C1_ErrorResponseHasNoCompressionHeaders ==
    (Done /\ Eligible /\ FinalStatusIsError)
        => (rw.header.ce = "" /\ rw.header.vary = <<>>)

\* C2: for a response whose final status is >= 400, the bytes delivered to
\* the underlying writer are exactly the bytes the handler wrote, with no
\* compressor header, payload or footer.
C2_ErrorBodyIsExactlyWhatWasWritten ==
    (Done /\ Eligible /\ FinalStatusIsError) => rw.out = Raw(hist.written)

\* C3: an eligible request whose handler stays below status 400, sets no
\* Content-Encoding itself and writes at least one chunk ends with
\* Content-Encoding: gzip, Accept-Encoding in Vary, and a body that is one
\* gzip stream decoding to the chunks in write order.
C3_SuccessfulResponseIsOneGzipStream ==
    (Done /\ Eligible /\ ~hist.sawErr /\ ~hist.setCE /\ hist.writes >= 1)
        => /\ rw.header.ce = "gzip"
           /\ \E i \in 1..Len(rw.header.vary) : rw.header.vary[i] = "Accept-Encoding"
           /\ IsGzipStream(rw.out)
           /\ Gunzip(rw.out) = hist.written

\* C4: when a write of the response went through the compressor, the
\* Content-Length at completion is the number of bytes delivered to the
\* underlying writer, the gzip footer (written last) included; the value
\* the handler set does not survive unless it is that number.
C4_ContentLengthIsCompressedByteCount ==
    (Done /\ hist.gz)
        => /\ rw.header.cl = Itoa(ByteLen(rw.out))
           /\ rw.out[Len(rw.out)].k = "ftr"

C4_Witness ==
    /\ Done /\ hist.gz
    /\ hist.ref.header.cl = "19"
    /\ rw.header.cl = "21"
    /\ Len(hist.written) = 1

\* C5: for a request whose Accept-Encoding lacks gzip, under every
\* configuration, the body delivered is what the handler wrote and the
\* response headers are the ones the handler set, with no Content-Encoding or
\* Vary from this layer and the handler's Content-Length unchanged.
C5_NoGzipAcceptedLeavesResponseUntouched ==
    (Done /\ ~AcceptsGzip(req0))
        => (rw.out = hist.ref.out /\ rw.header = hist.ref.header)

\* C6: with no custom predicate the decorator is installed exactly for the
\* requests that accept gzip, signal no upgrade and whose path no excluded
\* extension, prefix or regular expression matches; the response to an
\* excluded path is delivered as the handler wrote it.
C6_DecisionEqualsReference ==
    (~cfg.custom /\ ~cfg.decompressOnly)
        => /\ PastGate => (gw.installed <=> RefEligible(cfg, req0))
           /\ (Done /\ RefExcluded(cfg, req0))
                => (rw.out = Raw(hist.written) /\ rw.header = hist.ref.header)

C6_Witness ==
    /\ Done /\ ~cfg.custom
    /\ AcceptsGzip(req0) /\ ~SignalsUpgrade(req0)
    /\ req0.path = Path_html
    /\ cfg.excludedExtensions = DefaultExcludedExtentions /\ cfg.excludedPaths = <<>>
    /\ cfg.excludedPathesRegexs # <<>>
    /\ ~gw.installed
    /\ hist.writes = 2

\* C7: with a custom predicate and combine mode off, the request is
\* rejected if Accept-Encoding lacks gzip, then if it signals an upgrade,
\* and only then the predicate decides; a predicate returning false leaves
\* the body and the handler's Content-Length as the handler set them.
C7_CustomPredicateAfterHeaderChecks ==
    (cfg.custom /\ ~cfg.combine)
        => /\ PastGate =>
                (gw.installed <=> (AcceptsGzip(req0) /\ ~SignalsUpgrade(req0) /\ req0.vote))
           /\ (Done /\ ~req0.vote)
                => (rw.out = Raw(hist.written) /\ rw.header.cl = hist.ref.header.cl)

\* C8: with a custom predicate and combine mode on, a false vote of the
\* predicate makes the request not eligible, and a true vote does not bypass
\* the built-in rules: an excluded path is still not compressed.
C8_CombineModeKeepsExclusions ==
    (cfg.custom /\ cfg.combine /\ PastGate)
        => /\ ~req0.vote => ~gw.installed
           /\ RefExcluded(cfg, req0) => ~gw.installed

\* C9: in decompress-only mode no decorator is installed and, for every
\* request, the body delivered and the response headers are what the handler
\* wrote and set; a request body sent with Content-Encoding: gzip is decoded
\* before the handler runs.
C9_DecompressOnlyNeverCompresses ==
    cfg.decompressOnly
        => /\ ~gw.installed
           /\ rw.out = Raw(hist.written)
           /\ rw.header = hist.ref.header
           /\ (cfg.decompressFn /\ req0.ce = gzipEncoding /\ req0.body.present
                 /\ req0.body.layers >= 1)
                => /\ Done => handlerRuns = 1
                   /\ handlerRuns = 1
                        => /\ seen.body = [req0.body EXCEPT !.layers = @ - 1]
                           /\ seen.ce = <<>>

C9_Witness ==
    /\ Done /\ cfg.decompressOnly /\ cfg.decompressFn
    /\ AcceptsGzip(req0)
    /\ req0.ce = gzipEncoding /\ req0.body.layers = 1
    /\ seen.body.layers = 0
    /\ hist.writes >= 1

\* C10: a request body wrapped in n >= 1 gzip layers and sent with a
\* Content-Encoding chain of n gzip tokens, a decode function being
\* configured, reaches the handler as the plain body, with neither
\* Content-Encoding nor Content-Length on the request.
C10_GzipChainIsDecoded ==
    (Done /\ cfg.decompressFn /\ req0.body.present /\ req0.body.layers >= 1
       /\ req0.ce = GzipChain(req0.body.layers))
        => /\ handlerRuns = 1
           /\ seen.body = [req0.body EXCEPT !.layers = 0]
           /\ seen.ce = <<>>
           /\ seen.cl = ""

\* C11: a request with a body whose Content-Encoding holds a token other
\* than gzip, a decode function being configured, fails with 415 and the
\* downstream handler never runs.
C11_ForeignTokenFailsWith415 ==
    (Done /\ cfg.decompressFn /\ req0.body.present /\ HasForeignToken(req0.ce))
        => (FailedWith(415) /\ handlerRuns = 0)

\* C12 as stated: a request declaring Content-Encoding: gzip whose body is
\* no gzip container is aborted with 400, the handler never runs, and the
\* request's Content-Encoding, Content-Length and body are as received.
C12_BadBodyFailsWith400AllAsReceived ==
    (Done /\ cfg.decompressFn /\ req0.ce = gzipEncoding /\ req0.body.present
       /\ req0.body.layers = 0)
        => /\ FailedWith(400) /\ rw.status = 400 /\ handlerRuns = 0
           /\ req.ce = req0.ce /\ req.cl = req0.cl
           /\ req.body = req0.body

\* C12 as amended: ... the headers are as received and the body is still
\* the reader that was received, no decoder around it, but the failed read
\* of a gzip header has consumed bytes of it.
C12_BadBodyFailsWith400BodyRead ==
    (Done /\ cfg.decompressFn /\ req0.ce = gzipEncoding /\ req0.body.present
       /\ req0.body.layers = 0)
        => /\ FailedWith(400) /\ rw.status = 400 /\ handlerRuns = 0
           /\ req.ce = req0.ce /\ req.cl = req0.cl
           /\ req.body = [req0.body EXCEPT !.drained = TRUE]

C12_Witness ==
    /\ Done /\ cfg.decompressFn /\ ~cfg.decompressOnly
    /\ req0.ce = gzipEncoding /\ req0.body.present /\ req0.body.layers = 0
    /\ AcceptsGzip(req0)
    /\ req0.cl = "7" /\ req.cl = "7"
    /\ errs = <<400>> /\ aborted /\ handlerRuns = 0

\* C13: when the handler set Content-Encoding: gzip and wrote a body that
\* starts with 0x1f 0x8b, what is delivered decodes with one layer of gzip
\* to the handler's content (its own bytes, at most an empty gzip member
\* after them), and Content-Encoding, Vary and ETag are as the handler set
\* them.
C13_AlreadyGzippedBodyAndHeadersKept ==
    (Done /\ Eligible /\ ~hist.sawErr /\ hist.writes >= 1
       /\ hist.first.header.ce = "gzip" /\ hist.ref.header.ce = "gzip"
       /\ IsGzipMagic(hist.written))
        => /\ rw.out \in {Raw(hist.written), Raw(hist.written) \o EmptyGzipStream}
           /\ HandlerHeadersKept

\* C14: when the handler set Content-Encoding to br before its first body
\* write, every body byte is forwarded unmodified, nothing else is
\* delivered, and Content-Encoding, Vary and ETag at completion are as the
\* handler set them, with no Accept-Encoding added to Vary.
C14_ForeignEncodingLeftUntouched ==
    (Done /\ Eligible /\ ~hist.sawErr /\ hist.writes >= 1
       /\ hist.first.header.ce = "br" /\ hist.ref.header.ce = "br")
        => /\ rw.out = Raw(hist.written)
           /\ HandlerHeadersKept
           /\ Count(rw.header.vary, "Accept-Encoding") = 0

\* C15: when the response is compressed, the Vary values that were on the
\* response at the handler's first write (from an earlier middleware or the
\* handler) are still there at completion, in their order, followed by
\* Accept-Encoding.
C15_AcceptEncodingAppendedToVary ==
    (Done /\ Eligible /\ hist.first.via = "gz" /\ ~hist.raw)
        => LET before == hist.first.header.vary
           IN  /\ Len(rw.header.vary) >= Len(before) + 1
               /\ SubSeq(rw.header.vary, 1, Len(before) + 1)
                     = before \o <<"Accept-Encoding">>

\* C16: the layer adds Accept-Encoding to Vary at most once in a response,
\* and while no body byte has been written the response has no
\* Content-Encoding: gzip that the handler did not set.
C16_CompressionHeadersOnceAfterDecision ==
    /\ Count(rw.header.vary, "Accept-Encoding") <= 1
    /\ (hist.writes = 0 /\ ~RwWritten(rw) /\ hist.ref.header.ce # "gzip")
          => rw.header.ce # "gzip"

\* C17: after WriteHeader(s1), ..., WriteHeader(sk) and one Write on an
\* eligible request, the write went through the compressor with
\* Content-Encoding: gzip and Accept-Encoding in Vary exactly when sk < 400.
C17_DecisionFromStatusAtWrite ==
    (Eligible /\ PastGate /\ hist.writes = 1 /\ ~hist.other /\ hist.first.last # 0
       /\ hist.last = hist.first.last)
        => ((/\ hist.first.via = "gz"
             /\ rw.header.ce = "gzip"
             /\ Count(rw.header.vary, "Accept-Encoding") >= 1)
            <=> hist.first.last < 400)

\* C20: when the handler of an eligible request writes no body byte, with
\* or without a status or a forced header write, no gzip header or footer
\* has been delivered at completion and the layer has set no
\* Content-Length: the header is absent or holds what the handler set.
C20_EmptyBodyGetsNoGzipBytesNoLength ==
    (Done /\ Eligible /\ hist.writes = 0)
        => /\ \A i \in 1..Len(rw.out) : rw.out[i].k \notin {"hdr", "ftr"}
           /\ rw.header.cl \in {"", hist.ref.header.cl}

\* C18: once the handler has hijacked the connection through the
\* decorator, the completion of the request delivers nothing to the
\* connection and changes no response header.
C18_NothingAtCompletionAfterHijack ==
    [][(rw.hijacked /\ gw.installed /\ pc = "defer")
          => (rw'.out = rw.out /\ rw'.header = rw.header)]_vars

\* C19: with requests running Handle concurrently, no two of them hold the
\* same compressor, no compressor a request holds is also idle in the pool,
\* and the compressor of a request that is being served writes to that
\* request's writer: nobody else has reset it meanwhile.
C19_OneOwnerPerCompressor ==
    /\ \A r1, r2 \in ReqIds :
          (r1 # r2 /\ conc.held[r1] # 0) => conc.held[r1] # conc.held[r2]
    /\ \A r \in ReqIds : conc.held[r] # 0 => conc.held[r] \notin conc.pool
    /\ \A r \in ReqIds : conc.at[r] = "serving" => conc.target[conc.held[r]] = r

\* two requests are served at once, one of them with a compressor that the
\* other one used and put back before
C19_Witness ==
    \E r1, r2 \in ReqIds :
        /\ r1 # r2
        /\ conc.at[r1] = "serving" /\ conc.at[r2] = "serving"
        /\ conc.held[r1] # conc.held[r2]
        /\ conc.user[conc.held[r1]] = r2
        /\ conc.made = 2

\* C23: once a body write of a response has been forwarded unmodified, no
\* later write of that response goes through the compressor.
C23_PassThroughIsAbsorbing ==
    (PastGate /\ gw.installed) => ~hist.rawThenGz

\* C24: while the handler neither reports an error status nor sets
\* Content-Encoding itself, once a body write has gone through the
\* compressor no later write is forwarded raw.
C24_CompressingIsAbsorbing ==
    (PastGate /\ gw.installed /\ ~hist.sawErr /\ ~hist.setCE) => ~hist.gzThenRaw

\* C25: when the handler makes only WriteHeader and Write calls, a response
\* with a byte written through the compressor carries Content-Encoding: gzip,
\* and a response that carries Content-Encoding: gzip has had no body byte
\* forwarded raw.
C25_HeaderAndBodyAgree ==
    (PastGate /\ gw.installed /\ ~hist.other /\ hist.writes >= 1)
        => /\ hist.gz => rw.header.ce = "gzip"
           /\ rw.header.ce = "gzip" => ~hist.raw

\* C26: when every body write of a response was passed through because of
\* the encoding the handler declared, the bytes delivered at completion are
\* the handler's bytes and nothing else, and Content-Length, if set, is their
\* number.
C26_PassedThroughBodyIsExact ==
    (Done /\ gw.installed /\ hist.writes >= 1 /\ ~hist.gz /\ ~hist.sawErr
       /\ hist.first.header.ce # "" /\ hist.ref.header.ce = hist.first.header.ce)
        => /\ rw.out = Raw(hist.written)
           /\ rw.header.cl \in {"", Itoa(Len(hist.written))}

\* C27: a WriteHeader(code) through the decorator before any body write,
\* for a code below 400 or not, records the code and statusWritten, deletes
\* Content-Length and forwards the code to the underlying writer, and does
\* nothing else: Content-Encoding, Vary and ETag stay as they are, headersSet
\* and the compressor are untouched and no byte is written.
C27_WriteHeaderOnlyRecordsStatus ==
    [][(pc = "handler" /\ gw.installed /\ hist.writes = 0 /\ hist'.writes = 0
          /\ hist'.last # hist.last)
          => /\ gw' = [gw EXCEPT !.status = hist'.last, !.statusWritten = TRUE]
             /\ rw'.header = [rw.header EXCEPT !.cl = ""]
             /\ rw'.status = IF RwWritten(rw) THEN rw.status ELSE hist'.last
             /\ rw'.out = rw.out
             /\ rw'.size = rw.size
             /\ gz' = gz]_vars

\* WriteHeader(404) came before any body write, on a response that carries
\* Content-Encoding: gzip, Vary and an ETag, and took away the Content-Length
\* the handler had set
C27_Witness ==
    /\ pc = "handler" /\ gw.installed /\ hist.writes = 0
    /\ hist.last = 404 /\ gw.status = 404 /\ gw.statusWritten /\ rw.status = 404
    /\ rw.header.ce = "gzip" /\ rw.header.vary # <<>> /\ rw.header.etag # <<>>
    /\ hist.ref.header.cl # "" /\ rw.header.cl = ""

\* C28: once a write of the response has gone through the compressor,
\* every later Write or WriteHeader of the handler leaves the response
\* without Content-Length, and before completion the layer puts no
\* Content-Length of its own: the header is absent or what the handler set.
C28_NoContentLengthWhileCompressing ==
    [][(pc = "handler" /\ gw.installed /\ gw.headersSet)
          => /\ (hist'.writes # hist.writes \/ hist'.last # hist.last)
                    => rw'.header.cl = ""
             /\ rw.header.cl \in {"", hist.ref.header.cl}]_vars

\* a weak validator of the ETag e: absent stays absent, weak stays as it is
WeakETag(e) ==
    IF e = <<>> \/ HasPrefix(e, <<"W", "/">>) THEN e ELSE <<"W", "/">> \o e

\* C29: the write that chooses compression turns the ETag into its weak
\* form (W/ put before a strong one, a weak or absent one unchanged), every
\* later compressed write leaves the ETag as it is, and no ETag with a
\* doubled prefix W/W/ ever appears.
C29_ETagWeakenedOnce ==
    [][(pc = "handler" /\ gw.installed)
          => /\ (hist'.writes = hist.writes + 1 /\ hist'.via = "gz")
                    => rw'.header.etag = IF gw.headersSet THEN rw.header.etag
                                         ELSE WeakETag(rw.header.etag)
             /\ ~HasPrefix(rw'.header.etag, <<"W", "/", "W", "/">>)]_vars

\* two compressed writes after the handler set a strong ETag: it is weak
C29_Witness ==
    /\ gw.installed /\ hist.writes >= 2 /\ ~hist.raw
    /\ hist.ref.header.etag = <<"e">>
    /\ hist.first.header.etag = <<"e">>
    /\ rw.header.etag = <<"W", "/", "e">>

\* C30: a request that is not eligible takes no compressor from the pool;
\* a request that is takes one, keeps it while the handler runs and, when
\* Handle returns, whether the handler returned, panicked or never ran
\* because the request was aborted, puts it back once: finalized first, so
\* that the footer reaches a response that has been written to, then reset
\* to the discard sink, then released.
C30_CompressorReturnedOnce ==
    [][/\ (pc = "gate" /\ ~gw'.installed) => (gzPool' = gzPool /\ gz' = gz)
       /\ (pc = "gate" /\ gw'.installed)
              => (gzPool' = PoolRest(gzPool) /\ gz'.target = "rw" /\ pc' \in {"handler", "defer"})
       /\ pc \notin {"gate", "defer"} => gzPool' = gzPool
       /\ pc = "handler" /\ gw.installed => pc' \in {"handler", "defer"}
       /\ pc = "defer"
              => /\ pc' = "done"
                 /\ Len(gzPool') = Len(gzPool) + 1
                 /\ SubSeq(gzPool', 1, Len(gzPool)) = gzPool
                 /\ gzPool'[Len(gzPool')] = NewWriterLevel
                 /\ WriterSize(rw) >= 0
                        => (rw'.out # <<>> /\ rw'.out[Len(rw'.out)].k = "ftr")]_vars

\* a handler that panicked after a compressed write: the response is
\* finalized and the compressor is back in the pool
C30_Witness ==
    /\ Done /\ gw.installed /\ hist.panicked /\ hist.gz
    /\ gzPool = <<NewWriterLevel>>
    /\ rw.out[Len(rw.out)].k = "ftr"

\* C21: with a minimum length L >= 1 and a handler that sets no
\* Content-Length, the completed response is a gzip stream with
\* Content-Encoding: gzip and Vary: Accept-Encoding when the bytes the
\* handler wrote number at least L, and otherwise it is those bytes as
\* written, without Content-Encoding: gzip and without Accept-Encoding in Vary.
C21_CompressedIffTotalReachesMinimum ==
    (Done /\ gw.installed /\ cfg.minLength >= 1 /\ ~hist.other)
        => IF Len(hist.written) >= cfg.minLength
           THEN /\ IsGzipStream(rw.out)
                /\ rw.header.ce = "gzip"
                /\ Count(rw.header.vary, "Accept-Encoding") >= 1
           ELSE /\ rw.out = Raw(hist.written)
                /\ rw.header.ce # "gzip"
                /\ Count(rw.header.vary, "Accept-Encoding") = 0

\* three bytes written in two chunks, each below the minimum of three: the
\* buffer reached the minimum and the response is compressed
C21_Witness ==
    /\ Done /\ gw.installed /\ cfg.minLength = 3 /\ ~hist.other
    /\ hist.writes = 2 /\ Len(hist.written) = 3
    /\ IsGzipStream(rw.out) /\ rw.header.ce = "gzip"

\* C22: with a minimum length L >= 1 and a Content-Length the handler
\* declared before its first write, compression is decided by the declared
\* value from the first write on: chosen exactly when the value is at
\* least L, and at completion the response is a gzip stream in that case and
\* the bytes as written otherwise.
C22_DeclaredLengthDecides ==
    \A n \in LengthsML :
        (/\ gw.installed /\ cfg.minLength >= 1 /\ hist.writes >= 1
         /\ hist.first.header.cl = Itoa(n) /\ hist.ref.header.cl = Itoa(n))
            => /\ gw.compress <=> n >= cfg.minLength
               /\ rw.header.ce = "gzip" <=> n >= cfg.minLength
               /\ Done => IF n >= cfg.minLength THEN IsGzipStream(rw.out)
                          ELSE rw.out = Raw(hist.written)

\* C37: in the middleware with a minimum length, the body delivered at
\* completion, gzip-decoded when the response is compressed, is the
\* concatenation of the chunks the handler wrote, in the order written.
C37_NoByteLostWithMinimumLength ==
    (Done /\ gw.installed)
        => IF gw.compress
           THEN IsGzipStream(rw.out) /\ Gunzip(rw.out) = hist.written
           ELSE rw.out = Raw(hist.written)

\* C31: with requests running Handle concurrently, in every reachable state
\* every compressor idle in the pool writes to the discard sink and to no
\* request's writer, whether New made it or a request put it back.
C31_IdleCompressorsTargetDiscard ==
    \A z \in conc.pool : conc.target[z] = 0

\* a compressor a request has used and put back is idle in the pool while
\* another request is being served
C31_Witness ==
    \E z \in conc.pool, r \in ReqIds :
        /\ conc.user[z] # 0
        /\ conc.user[z] # r
        /\ conc.at[r] = "serving"

\* C32: with a valid compression level a request that reaches Get can always
\* take a compressor, however many requests are in flight, and none fails
\* in it; with an invalid level no request fails in Get either: the error
\* belongs to the construction of the middleware, before any request.
C32_AcquireNeverFailsInRequest ==
    /\ ValidLevel(cfg.level)
           => \A r \in ReqIds :
                  /\ conc.at[r] = "idle" => ENABLED ConcGet(r)
                  /\ conc.at[r] # "panicked"
    /\ ~ValidLevel(cfg.level) => \A r \in ReqIds : conc.at[r] # "panicked"

\* C35: for an eligible request sent with Content-Encoding: gzip and a gzip
\* body, a decode function being configured, the handler runs once, sees
\* the decoded body and gets the decorator as its writer; what it writes
\* below status 400, with no encoding of its own, is delivered as one gzip
\* stream of its bytes, and nothing follows a body that went out raw.
C35_DecodedRequestGetsCompressedResponse ==
    (Done /\ cfg.decompressFn /\ Eligible /\ req0.ce = gzipEncoding
       /\ req0.body.present /\ req0.body.layers >= 1)
        => /\ handlerRuns = 1
           /\ seen.body = [req0.body EXCEPT !.layers = @ - 1]
           /\ seen.wrapped
           /\ (hist.writes >= 1 /\ ~hist.sawErr /\ ~hist.setCE /\ ~hist.panicked
                 /\ ~Contains(hist.written, <<31, 139>>))
                  => (IsGzipStream(rw.out) /\ Gunzip(rw.out) = hist.written)
           /\ (hist.writes >= 1 /\ HasPrefix(rw.out, Raw(hist.written)))
                  => rw.out = Raw(hist.written)

\* the place of the first token of ce that is neither empty nor gzip
FirstForeignToken(ce) ==
    CHOOSE i \in 1..Len(Tokens(ce)) :
        /\ Tokens(ce)[i] # <<>> /\ Tokens(ce)[i] # gzipEncoding
        /\ \A j \in 1..(i - 1) : Tokens(ce)[j] = <<>> \/ Tokens(ce)[j] = gzipEncoding

\* how many gzip tokens come before it
GzipTokensBefore(ce) ==
    Cardinality({j \in 1..(FirstForeignToken(ce) - 1) : Tokens(ce)[j] = gzipEncoding})

\* C33: when the decoder, having decoded the gzip tokens before it, comes to
\* a token that is not gzip, the request ends with the one error 415, the
\* handler does not run, and the body and the Content-Encoding and
\* Content-Length headers are as they were when the token was met: no
\* reader was made for it or for a later token.
C33_UnsupportedTokenAbortsAtOnce ==
    (Done /\ req0.body.present /\ HasForeignToken(req0.ce)
       /\ req0.body.layers >= GzipTokensBefore(req0.ce))
        => /\ errs = <<415>>
           /\ handlerRuns = 0
           /\ req.body = [req0.body EXCEPT !.layers = @ - GzipTokensBefore(req0.ce)]
           /\ req.ce = req0.ce
           /\ req.cl = req0.cl

\* the readers the decoder made around the body of the request, counted by
\* the gzip layers it took off
ReadersMade == req0.body.layers - req.body.layers

\* C34: nothing is closed while the handler runs, and once the request is
\* complete the body that was received and every reader made around it,
\* the last one included, have been closed once each, the last made first,
\* after a chain that succeeded and after one that failed part of the way.
C34_EveryReaderClosedOnceInReverse ==
    /\ pc = "handler" => closeLog = <<>>
    /\ (Done /\ ReadersMade = 0) => closeLog = <<>>
    /\ (Done /\ ReadersMade >= 1)
           => closeLog = [i \in 1..(ReadersMade + 1) |-> req.body.layers + i - 1]

\* C39: when the decoder is given a request with no body, or one with a
\* body whose Content-Encoding holds no token, the body and the
\* Content-Encoding and Content-Length headers stay as received, no error
\* is recorded and the handler runs once and sees them so.
C39_NothingToDecodeIsNoOp ==
    (Done /\ (~req0.body.present \/ \A i \in 1..Len(Tokens(req0.ce)) : Tokens(req0.ce)[i] = <<>>))
        => /\ req = req0
           /\ errs = <<>> /\ ~aborted
           /\ handlerRuns = 1
           /\ seen.body = req0.body /\ seen.ce = req0.ce /\ seen.cl = req0.cl

\* the number of non-empty tokens of a Content-Encoding value
RECURSIVE CountTokens(_, _)
CountTokens(ce, i) ==
    IF i > Len(Tokens(ce)) THEN 0
    ELSE (IF Tokens(ce)[i] # <<>> THEN 1 ELSE 0) + CountTokens(ce, i + 1)

\* C38: a request whose Content-Encoding spells gzip in another case, with
\* spaces around it, or with an empty segment between two gzip tokens, and
\* whose body has that many gzip layers, is decoded as the canonical
\* spelling is: the handler runs once and sees the body with one layer
\* removed per token, without Content-Encoding and Content-Length.
C38_SpellingsDecodedLikeCanonical ==
    (Done /\ cfg.decompressFn /\ req0.body.present
       /\ req0.ce \in {Str_GZIP, Str_gzip_spaced, Str_gzip_empty_gzip}
       /\ req0.body.layers >= CountTokens(req0.ce, 1))
        => /\ handlerRuns = 1 /\ errs = <<>>
           /\ seen.body = [req0.body EXCEPT !.layers = @ - CountTokens(req0.ce, 1)]
           /\ seen.ce = <<>>
           /\ seen.cl = ""

\* C36: when a write to the underlying writer has failed while a request
\* was served through the decorator, the failure was reported: a Write of
\* the handler returned an error, or an error was recorded on the context.
C36_WriteFailureIsReported ==
    (Done /\ gw.installed /\ rw.refused) => (hist.told \/ errs # <<>>)

====
